---- MODULE Spec2Model ----
(***************************************************************************)
(* dbus_idle: idle-time monitors, their registry (IdleMonitor.subclasses), *)
(* the selection of a backend (get_monitor), the idle decision (is_idle)   *)
(* and the two Wayland event-driven trackers.                              *)
(*                                                                         *)
(* Durations are Python floats of seconds obtained by dividing an integer  *)
(* number of milliseconds by 1000.0; they are kept as a decimal fixed      *)
(* point value [s |-> whole seconds, f |-> thousandths, 0..999].           *)
(* Wall-clock time (time.time(), time.time_ns()) is kept in milliseconds.  *)
(***************************************************************************)
EXTENDS Integers, Sequences, FiniteSets, TLC

VARIABLES
    host,        \* what the machine offers: libraries, services, compositor
    pc,          \* "start" | "loaded" | "import_error": the package import
    subclasses,  \* IdleMonitor.subclasses, the registry, in registration order
    monitor,     \* the instance get_monitor returned to the caller
    tracker,     \* the ExtIdleMonitor instance a caller constructs directly
    queue,       \* events queued on the Wayland connection, in arrival order
    pending,     \* registry globals announced and not yet dispatched
    now,         \* wall clock, milliseconds
    ret,         \* outcome of the most recent call
    input,       \* history: what the most recent query read from outside
    batch,       \* history: the events the most recent call dispatched
    answered,    \* history: the backends that answered a query of the monitor
    log          \* history: the events dispatched so far, in arrival order

vars == <<host, pc, subclasses, monitor, tracker, queue, pending, now, ret, input, batch, answered, log>>

(***************************************************************************)
(* Bounds and input sets                                                   *)
(***************************************************************************)
MaxNow == 2000
MaxEvents == 3
MaxKdeEvents == 1

TickSteps == {500, 1000}
Thresholds == {0, 1, 120}
IdletimeValues == {0, 999, 1000, 1001, 60000, 120000, 125000}
Stamps == {0, 1000}

(***************************************************************************)
(* Values                                                                  *)
(***************************************************************************)
\* ms / 1000.0
Seconds(ms) == [s |-> ms \div 1000, f |-> ms % 1000]

\* an int used where a float of seconds is expected
FromInt(n) == [s |-> n, f |-> 0]

Zero == FromInt(0)

\* float > int
GreaterThan(d, t) == d.s > t \/ (d.s = t /\ d.f > 0)

NoCall == [op |-> "none", tag |-> "none", dur |-> Zero, bool |-> FALSE, exc |-> "none"]

Return(name, d) == [op |-> name, tag |-> "float", dur |-> d, bool |-> FALSE, exc |-> "none"]

ReturnNone(name) == [op |-> name, tag |-> "None", dur |-> Zero, bool |-> FALSE, exc |-> "none"]

\* a bool, with the duration it was decided from
ReturnBool(name, d, b) == [op |-> name, tag |-> "bool", dur |-> d, bool |-> b, exc |-> "none"]

ReturnObject(name) == [op |-> name, tag |-> "object", dur |-> Zero, bool |-> FALSE, exc |-> "none"]

Raise(name, e) == [op |-> name, tag |-> "raise", dur |-> Zero, bool |-> FALSE, exc |-> e]

NoMonitor == [cls |-> "none"]

(***************************************************************************)
(* The host: everything a constructor probes                               *)
(***************************************************************************)
\* D-Bus names, as their dot-separated parts
BusNamesPlain == {<<"org", "freedesktop", "DBus">>}

BusNamesIdle == {<<"org", "freedesktop", "DBus">>, <<"org", "gnome", "Mutter", "IdleMonitor">>}

\* A probe that fails stops the constructor, so what lies behind a failing
\* probe is never read: those facts are held at their "absent" value.
Hosts ==
    { h \in [pywayland : BOOLEAN, compositor : BOOLEAN,
             globals : SUBSET {"wl_seat", "org_kde_kwin_idle"},
             dasbus : BOOLEAN, sessionBus : BOOLEAN,
             busNames : {{}, BusNamesPlain, BusNamesIdle},
             xprintidle : BOOLEAN,
             libX11 : BOOLEAN, xdisplay : BOOLEAN, libXss : BOOLEAN,
             win32api : BOOLEAN] :
        /\ (~h.compositor => h.globals = {})
        /\ (~h.dasbus => ~h.sessionBus)
        /\ (h.sessionBus <=> h.busNames # {})
        /\ (~h.libX11 => ~h.xdisplay)
        /\ (~h.xdisplay => ~h.libXss) }

(***************************************************************************)
(* Registration: class definitions executed by the import                  *)
(***************************************************************************)
\* the class statements in execution order: wayland_monitors is imported
\* (line 11 of __init__.py) before IdleMonitor and its subclasses are defined
ClassDefs ==
    << [name |-> "WaylandMonitorBase", base |-> "object"],
       [name |-> "ExtIdleMonitor", base |-> "WaylandMonitorBase"],
       [name |-> "IdleMonitor", base |-> "object"],
       [name |-> "WaylandKdeIdleMonitor", base |-> "IdleMonitor"],
       [name |-> "DBusIdleMonitor", base |-> "IdleMonitor"],
       [name |-> "XprintidleIdleMonitor", base |-> "IdleMonitor"],
       [name |-> "X11IdleMonitor", base |-> "IdleMonitor"],
       [name |-> "WindowsIdleMonitor", base |-> "IdleMonitor"] >>

\* IdleMonitor.__init_subclass__: self.subclasses.append(self)
init_subclass(subs, cls) == Append(subs, cls)

RECURSIVE DefineClasses(_, _)
DefineClasses(i, subs) ==
    IF i > Len(ClassDefs) THEN subs
    ELSE DefineClasses(i + 1,
            IF ClassDefs[i].base = "IdleMonitor"
            THEN init_subclass(subs, ClassDefs[i].name)
            ELSE subs)

\* the registry once the package is imported
Registry == DefineClasses(1, <<>>)

(***************************************************************************)
(* Wayland event dispatch                                                  *)
(***************************************************************************)
IdleEvent(ts) == [name |-> "idle", timestamp |-> ts]

ResumedEvent == [name |-> "resumed", timestamp |-> 0]

\* WaylandKdeIdleMonitor._idle_timeout_handler
idle_timeout_handler(self, event_name, t) ==
    IF event_name = "idle" THEN [self EXCEPT !.idle_active = TRUE]
    ELSE IF event_name = "resumed"
         THEN [self EXCEPT !.idle_active = FALSE, !.last_activity = t]
         ELSE self

\* ExtIdleMonitor._handle_idle
handle_idle(self, timestamp) == [self EXCEPT !.idle_since = <<timestamp>>]

\* resumed refreshing last_activity and leaving idle_since as it is
handle_resumed_keeps_idle_since(self, t) == [self EXCEPT !.last_activity = t]

\* resumed clearing idle_since and leaving last_activity as it is
handle_resumed_keeps_last_activity(self, t) == [self EXCEPT !.idle_since = <<>>]

\* ExtIdleMonitor._handle_resumed
handle_resumed(self, t) == [self EXCEPT !.idle_since = <<>>, !.last_activity = t]

\* the listener registered for the object the event is addressed to
Listener(self, ev, t) ==
    IF self.cls = "WaylandKdeIdleMonitor" THEN idle_timeout_handler(self, ev.name, t)
    ELSE IF ev.name = "idle" THEN handle_idle(self, ev.timestamp)
    ELSE IF ev.name = "resumed" THEN handle_resumed(self, t)
    ELSE self

RECURSIVE Dispatch(_, _, _)
Dispatch(self, q, t) ==
    IF q = <<>> THEN self
    ELSE Dispatch(Listener(self, Head(q), t), Tail(q), t)

\* the queue dispatched newest event first
dispatch_pending_newest_first(self, q, t) ==
    Dispatch(self, [i \in 1..Len(q) |-> q[Len(q) + 1 - i]], t)

\* Display.dispatch_pending: every queued event, in arrival order, no waiting
dispatch_pending(self, q, t) == Dispatch(self, q, t)

\* a dispatch that waits until at least one event is queued
dispatch_returns_blocking(q) == q # <<>>

\* whether Display.dispatch_pending returns when the queue holds q: it handles
\* what is queued and never waits for the connection
dispatch_pending_returns(q) == TRUE

(***************************************************************************)
(* Constructors                                                            *)
(***************************************************************************)
DefaultThreshold == 120

Built(inst) == [ok |-> TRUE, exc |-> "none", inst |-> inst]

Failed(e) == [ok |-> FALSE, exc |-> e, inst |-> NoMonitor]

\* WaylandKdeIdleMonitor.__init__ and _registry_handler
WaylandKdeIdleMonitor(threshold, h, q, t) ==
    IF ~h.compositor THEN Failed("ConnectionError")
    ELSE LET seat == "wl_seat" \in h.globals
             idle_manager == "org_kde_kwin_idle" \in h.globals
         IN IF ~idle_manager \/ ~seat THEN Failed("AttributeError")
            ELSE Built(dispatch_pending(
                        [cls |-> "WaylandKdeIdleMonitor", idle_threshold |-> threshold,
                         last_activity |-> t, idle_active |-> FALSE], q, t))

HasIdleMonitor(service) == \E i \in 1..Len(service) : service[i] = "IdleMonitor"

\* DBusIdleMonitor.__init__
DBusIdleMonitor(threshold, h) ==
    IF ~h.dasbus THEN Failed("ImportError")
    ELSE IF ~h.sessionBus THEN Failed("DBusError")
    ELSE IF \E service \in h.busNames : HasIdleMonitor(service)
         THEN Built([cls |-> "DBusIdleMonitor", idle_threshold |-> threshold])
         ELSE Failed("AttributeError")

\* XprintidleIdleMonitor.__init__
XprintidleIdleMonitor(threshold, h) ==
    IF ~h.xprintidle THEN Failed("AttributeError")
    ELSE Built([cls |-> "XprintidleIdleMonitor", idle_threshold |-> threshold])

\* X11IdleMonitor.__init__ and _load_lib
X11IdleMonitor(threshold, h) ==
    IF ~h.libX11 THEN Failed("OSError")
    ELSE IF ~h.xdisplay THEN Failed("AttributeError")
    ELSE IF ~h.libXss THEN Failed("OSError")
    ELSE Built([cls |-> "X11IdleMonitor", idle_threshold |-> threshold])

\* WindowsIdleMonitor.__init__
WindowsIdleMonitor(threshold, h) ==
    IF ~h.win32api THEN Failed("ImportError")
    ELSE Built([cls |-> "WindowsIdleMonitor", idle_threshold |-> threshold])

\* monitor_class(**kwargs)
Construct(cls, threshold, h, q, t) ==
    CASE cls = "WaylandKdeIdleMonitor" -> WaylandKdeIdleMonitor(threshold, h, q, t)
      [] cls = "DBusIdleMonitor" -> DBusIdleMonitor(threshold, h)
      [] cls = "XprintidleIdleMonitor" -> XprintidleIdleMonitor(threshold, h)
      [] cls = "X11IdleMonitor" -> X11IdleMonitor(threshold, h)
      [] cls = "WindowsIdleMonitor" -> WindowsIdleMonitor(threshold, h)

(***************************************************************************)
(* IdleMonitor.get_monitor                                                 *)
(***************************************************************************)
RECURSIVE TryFrom(_, _, _, _, _, _)
TryFrom(i, subs, threshold, h, q, t) ==
    IF i > Len(subs) THEN Failed("RuntimeError")
    ELSE LET r == Construct(subs[i], threshold, h, q, t)
         IN IF r.ok THEN r ELSE TryFrom(i + 1, subs, threshold, h, q, t)

Reverse(seq) == [i \in 1..Len(seq) |-> seq[Len(seq) + 1 - i]]

\* the registry walked from its last entry
get_monitor_reversed(subs, threshold, h, q, t) ==
    TryFrom(1, Reverse(subs), threshold, h, q, t)

\* an instance handed out although no constructor succeeded
get_monitor_garbage(subs, threshold, h, q, t) ==
    LET r == TryFrom(1, subs, threshold, h, q, t)
    IN IF r.ok \/ subs = <<>> THEN r
       ELSE Built([cls |-> subs[Len(subs)], idle_threshold |-> threshold])

get_monitor(subs, threshold, h, q, t) == TryFrom(1, subs, threshold, h, q, t)


(***************************************************************************)
(* Text: the helper's standard output, one character per element           *)
(***************************************************************************)
Whitespace == {" ", "\n", "\t"}

DigitValue ==
    ("0" :> 0) @@ ("1" :> 1) @@ ("2" :> 2) @@ ("3" :> 3) @@ ("4" :> 4) @@
    ("5" :> 5) @@ ("6" :> 6) @@ ("7" :> 7) @@ ("8" :> 8) @@ ("9" :> 9)

RECURSIVE lstrip(_)
lstrip(str) ==
    IF str # <<>> /\ Head(str) \in Whitespace THEN lstrip(Tail(str)) ELSE str

RECURSIVE rstrip(_)
rstrip(str) ==
    IF str # <<>> /\ str[Len(str)] \in Whitespace
    THEN rstrip(SubSeq(str, 1, Len(str) - 1)) ELSE str

\* str.strip()
strip(str) == rstrip(lstrip(str))

RECURSIVE DigitsValue(_, _)
DigitsValue(str, acc) ==
    IF str = <<>> THEN acc
    ELSE DigitsValue(Tail(str), 10 * acc + DigitValue[Head(str)])

AllDigits(str) == str # <<>> /\ \A i \in 1..Len(str) : str[i] \in DOMAIN DigitValue

\* int(str): an optional sign and decimal digits, anything else is a ValueError
int(str) ==
    LET body == IF str # <<>> /\ Head(str) \in {"+", "-"} THEN Tail(str) ELSE str
    IN IF ~AllDigits(body) THEN [ok |-> FALSE, val |-> 0]
       ELSE [ok |-> TRUE,
             val |-> IF Head(str) = "-" THEN 0 - DigitsValue(body, 0)
                     ELSE DigitsValue(body, 0)]

(***************************************************************************)
(* What a query reads from outside the process                             *)
(***************************************************************************)
\* one run of the xprintidle helper: whether it could be spawned, its exit
\* status and its standard output
HelperRuns ==
    { [spawned |-> FALSE, returncode |-> 127, stdout |-> <<>>],
      [spawned |-> TRUE, returncode |-> 0, stdout |-> <<"5", "0", "0", "0", "\n">>],
      [spawned |-> TRUE, returncode |-> 0, stdout |-> <<"1", "0", "0", "0", "\n">>],
      [spawned |-> TRUE, returncode |-> 1, stdout |-> <<>>],
      [spawned |-> TRUE, returncode |-> 1, stdout |-> <<"7", "\n">>],
      [spawned |-> TRUE, returncode |-> 0, stdout |-> <<"n", "/", "a", "\n">>] }

NoRun == [spawned |-> FALSE, returncode |-> 127, stdout |-> <<>>]

\* [ms: GetIdletime() or XScreenSaverInfo.idle, run: the helper's run,
\*  current_tick, last_tick: GetTickCount() and GetLastInputInfo()]
Reading(ms, run, current_tick, last_tick) ==
    [ms |-> ms, run |-> run, current_tick |-> current_tick, last_tick |-> last_tick]

NoReading == Reading(0, NoRun, 0, 0)

Readings(cls) ==
    CASE cls \in {"DBusIdleMonitor", "X11IdleMonitor"} ->
            { Reading(m, NoRun, 0, 0) : m \in IdletimeValues }
      [] cls = "XprintidleIdleMonitor" ->
            { Reading(0, r, 0, 0) : r \in HelperRuns }
      [] cls = "WindowsIdleMonitor" ->
            { Reading(0, NoRun, c, l) : c \in {1000, 121500}, l \in {0, 1000} }
      [] cls = "IdleMonitor" ->
            { Reading(m, r, 1000, 0) :
                m \in {0, 125000},
                r \in { [spawned |-> TRUE, returncode |-> 0,
                         stdout |-> <<"5", "0", "0", "0", "\n">>],
                        [spawned |-> TRUE, returncode |-> 1, stdout |-> <<>>] } }
      [] OTHER -> { NoReading }

(***************************************************************************)
(* get_dbus_idle of each backend: [self: the instance afterwards, out]     *)
(***************************************************************************)
\* by: the class whose get_dbus_idle produced the float, "none" if none did
Answer(self, out) ==
    [self |-> self, out |-> out, by |-> IF out.tag = "float" THEN self.cls ELSE "none"]

\* WaylandKdeIdleMonitor.get_dbus_idle
WaylandKde_get_dbus_idle(self, q, t) ==
    LET after == dispatch_pending(self, q, t)
    IN Answer(after,
              IF after.idle_active
              THEN Return("get_dbus_idle", FromInt(after.idle_threshold))
              ELSE Return("get_dbus_idle", Seconds(t - after.last_activity)))

\* the milliseconds handed on as if they were seconds
DBus_get_dbus_idle_undivided(self, GetIdletime) ==
    Answer(self, Return("get_dbus_idle", FromInt(GetIdletime)))

\* DBusIdleMonitor.get_dbus_idle
DBus_get_dbus_idle(self, GetIdletime) ==
    Answer(self, Return("get_dbus_idle", Seconds(GetIdletime)))

\* XprintidleIdleMonitor.get_dbus_idle
Xprintidle_get_dbus_idle(self, run) ==
    IF ~run.spawned THEN Answer(self, Raise("get_dbus_idle", "FileNotFoundError"))
    ELSE LET n == int(strip(run.stdout))
         IN IF n.ok THEN Answer(self, Return("get_dbus_idle", Seconds(n.val)))
            ELSE Answer(self, Raise("get_dbus_idle", "ValueError"))

\* X11IdleMonitor.get_dbus_idle
X11_get_dbus_idle(self, idle) ==
    Answer(self, Return("get_dbus_idle", Seconds(idle)))

\* WindowsIdleMonitor.get_dbus_idle
Windows_get_dbus_idle(self, current_tick, last_tick) ==
    Answer(self, Return("get_dbus_idle", Seconds(current_tick - last_tick)))

\* self.get_dbus_idle(), by the class of self
get_dbus_idle(self, rd, q, t) ==
    CASE self.cls = "WaylandKdeIdleMonitor" -> WaylandKde_get_dbus_idle(self, q, t)
      [] self.cls = "DBusIdleMonitor" -> DBus_get_dbus_idle(self, rd.ms)
      [] self.cls = "XprintidleIdleMonitor" -> Xprintidle_get_dbus_idle(self, rd.run)
      [] self.cls = "X11IdleMonitor" -> X11_get_dbus_idle(self, rd.ms)
      [] self.cls = "WindowsIdleMonitor" ->
            Windows_get_dbus_idle(self, rd.current_tick, rd.last_tick)

\* IdleMonitor.get_dbus_idle, the loop: each registered class is constructed
\* anew, without arguments, and asked; any exception moves on to the next
RECURSIVE ProbeFrom(_, _, _, _, _, _)
ProbeFrom(i, self, subs, h, rd, t) ==
    IF i > Len(subs) THEN Answer(self, ReturnNone("get_dbus_idle"))
    ELSE LET c == Construct(subs[i], DefaultThreshold, h, <<>>, t)
             a == get_dbus_idle(c.inst, rd, <<>>, t)
         IN IF c.ok /\ a.out.tag = "float"
            THEN [self |-> self, out |-> a.out, by |-> subs[i]]
            ELSE ProbeFrom(i + 1, self, subs, h, rd, t)

\* IdleMonitor.get_dbus_idle
IdleMonitor_get_dbus_idle(self, subs, h, rd, t) == ProbeFrom(1, self, subs, h, rd, t)

\* self.get_dbus_idle() on any monitor object
Query(self, subs, h, rd, q, t) ==
    IF self.cls = "IdleMonitor" THEN IdleMonitor_get_dbus_idle(self, subs, h, rd, t)
    ELSE get_dbus_idle(self, rd, q, t)

\* the comparison with >= in place of >
is_idle_or_equal(idle_time, idle_threshold) ==
    GreaterThan(idle_time, idle_threshold) \/ idle_time = FromInt(idle_threshold)

\* IdleMonitor.is_idle: the comparison
is_idle(idle_time, idle_threshold) == GreaterThan(idle_time, idle_threshold)

\* IdleMonitor.is_idle: self.get_dbus_idle() > self.idle_threshold
IsIdleOutcome(out, idle_threshold) ==
    CASE out.tag = "raise" -> Raise("is_idle", out.exc)
      [] out.tag = "None" -> Raise("is_idle", "TypeError")
      [] OTHER -> ReturnBool("is_idle", out.dur, is_idle(out.dur, idle_threshold))

\* whether the instance holds a Wayland connection
IsWayland(self) == self.cls = "WaylandKdeIdleMonitor"


(***************************************************************************)
(* ExtIdleMonitor (wayland_monitors.py)                                    *)
(***************************************************************************)
\* no instance: nothing constructed, or the constructor raised
NoTracker ==
    [cls |-> "ExtIdleMonitor", phase |-> "none", idle_threshold |-> 0,
     connected |-> FALSE, seat |-> FALSE, idle_manager |-> FALSE,
     notifier |-> FALSE, idle_since |-> <<>>, last_activity |-> 0]

\* WaylandMonitorBase._handle_global
handle_global(self, interface) ==
    IF interface = "wl_seat" THEN [self EXCEPT !.seat = TRUE] ELSE self

\* ExtIdleMonitor._handle_ext_idle_global
handle_ext_idle_global(self, interface) ==
    LET base == handle_global(self, interface)
    IN IF interface = "ext_idle_notify_v1"
       THEN [base EXCEPT !.idle_manager = TRUE] ELSE base

\* the registry's "global" events of one roundtrip or dispatch; the handlers
\* only ever set a field, so the order among the globals does not matter
RECURSIVE DispatchGlobals(_, _, _)
DispatchGlobals(self, globals, ext) ==
    IF globals = {} THEN self
    ELSE LET g == CHOOSE x \in globals : TRUE
         IN DispatchGlobals(IF ext THEN handle_ext_idle_global(self, g)
                            ELSE handle_global(self, g),
                            globals \ {g}, ext)

\* ExtIdleMonitor.__init__ up to its own roundtrip: WaylandMonitorBase.__init__
\* (connect, registry, first roundtrip, seat check), then lines 36-41
ExtIdleMonitor_begin(idle_threshold, h, t) ==
    IF ~h.compositor THEN [ok |-> FALSE, exc |-> "ConnectionError", inst |-> NoTracker]
    ELSE LET seen == DispatchGlobals(
                        [NoTracker EXCEPT !.idle_threshold = idle_threshold,
                                          !.connected = TRUE],
                        h.globals, FALSE)
         IN IF ~seen.seat
            THEN [ok |-> FALSE, exc |-> "RuntimeError", inst |-> NoTracker]
            ELSE [ok |-> TRUE, exc |-> "none",
                  inst |-> [seen EXCEPT !.phase = "roundtrip", !.idle_manager = FALSE,
                                        !.notifier = FALSE, !.idle_since = <<>>,
                                        !.last_activity = t]]

\* ExtIdleMonitor._setup_idle_notifier
setup_idle_notifier(self) == [self EXCEPT !.notifier = TRUE]

\* the notification requested whether or not a manager was bound
ExtIdleMonitor_finish_unchecked(self, announced) ==
    [ok |-> TRUE, exc |-> "none",
     inst |-> [setup_idle_notifier(DispatchGlobals(self, announced, TRUE))
                  EXCEPT !.phase = "setup"]]

\* ExtIdleMonitor.__init__ from its roundtrip on (lines 42-47), up to the
\* return of _setup_idle_notifier
ExtIdleMonitor_finish(self, announced) ==
    LET seen == DispatchGlobals(self, announced, TRUE)
    IN IF ~seen.idle_manager
       THEN [ok |-> FALSE, exc |-> "RuntimeError", inst |-> NoTracker]
       ELSE [ok |-> TRUE, exc |-> "none",
             inst |-> [setup_idle_notifier(seen) EXCEPT !.phase = "setup"]]

\* ExtIdleMonitor.__init__ returning to its caller: nothing follows
\* _setup_idle_notifier, the queue q is left as it is
ExtIdleMonitor_return(self, q, t) ==
    [self |-> [self EXCEPT !.phase = "ready"], queue |-> q]

\* cleanup that leaves the connection open
cleanup_keeps_connection(self) == self

\* WaylandMonitorBase.cleanup
cleanup(self) == [self EXCEPT !.connected = FALSE]

\* the result computed before the queue is dispatched
get_idle_time_before_dispatch(self, announced, q, t) ==
    LET after == dispatch_pending(DispatchGlobals(self, announced, TRUE), q, t)
    IN Answer(after,
              IF self.idle_since # <<>>
              THEN Return("get_idle_time", Seconds(t - self.idle_since[1]))
              ELSE Return("get_idle_time", Seconds(t - self.last_activity)))

\* the threshold added to the time elapsed since the idle event
get_idle_time_plus_threshold(self, announced, q, t) ==
    LET after == dispatch_pending(DispatchGlobals(self, announced, TRUE), q, t)
    IN Answer(after,
              IF after.idle_since # <<>>
              THEN Return("get_idle_time",
                          Seconds(t - after.idle_since[1] + 1000 * after.idle_threshold))
              ELSE Return("get_idle_time", Seconds(t - after.last_activity)))

\* ExtIdleMonitor.get_idle_time
get_idle_time(self, announced, q, t) ==
    LET after == dispatch_pending(DispatchGlobals(self, announced, TRUE), q, t)
    IN Answer(after,
              IF after.idle_since # <<>>
              THEN Return("get_idle_time", Seconds(t - after.idle_since[1]))
              ELSE Return("get_idle_time", Seconds(t - after.last_activity)))

(***************************************************************************)
(* Actions                                                                 *)
(***************************************************************************)
\* import dbus_idle: the module body, lines 1-11 and the class statements
Import ==
    /\ pc = "start"
    /\ IF host.pywayland
       THEN /\ pc' = "loaded"
            /\ subclasses' = Registry
            /\ ret' = NoCall
       ELSE /\ pc' = "import_error"
            /\ ret' = Raise("import", "ImportError")
            /\ UNCHANGED subclasses
    /\ UNCHANGED <<host, monitor, tracker, queue, pending, now, input, batch, answered, log>>

\* monitor = IdleMonitor.get_monitor(idle_threshold=...)
GetMonitor(idle_threshold) ==
    /\ pc = "loaded"
    /\ monitor = NoMonitor
    /\ tracker = NoTracker
    /\ LET r == get_monitor(subclasses, idle_threshold, host, queue, now)
       IN /\ monitor' = r.inst
          /\ ret' = IF r.ok THEN ReturnObject("get_monitor")
                    ELSE Raise("get_monitor", r.exc)
    /\ UNCHANGED <<host, pc, subclasses, tracker, queue, pending, now, input, batch, answered, log>>

\* monitor.get_dbus_idle()
GetDbusIdle(rd) ==
    /\ monitor # NoMonitor
    /\ IsWayland(monitor) => dispatch_pending_returns(queue)
    /\ LET a == Query(monitor, subclasses, host, rd, queue, now)
       IN /\ monitor' = a.self
          /\ ret' = a.out
          /\ answered' = IF a.by = "none" THEN answered ELSE answered \cup {a.by}
    /\ input' = rd
    /\ IF IsWayland(monitor)
       THEN queue' = <<>> /\ batch' = queue /\ log' = log \o queue
       ELSE UNCHANGED <<queue, batch, log>>
    /\ UNCHANGED <<host, pc, subclasses, tracker, pending, now>>

\* monitor.is_idle()
IsIdle(rd) ==
    /\ monitor # NoMonitor
    /\ IsWayland(monitor) => dispatch_pending_returns(queue)
    /\ LET a == Query(monitor, subclasses, host, rd, queue, now)
       IN /\ monitor' = a.self
          /\ ret' = IsIdleOutcome(a.out, monitor.idle_threshold)
          /\ answered' = IF a.by = "none" THEN answered ELSE answered \cup {a.by}
    /\ input' = rd
    /\ IF IsWayland(monitor)
       THEN queue' = <<>> /\ batch' = queue /\ log' = log \o queue
       ELSE UNCHANGED <<queue, batch, log>>
    /\ UNCHANGED <<host, pc, subclasses, tracker, pending, now>>

\* time passes
Tick(d) ==
    /\ now + d <= MaxNow
    /\ now' = now + d
    /\ UNCHANGED <<host, pc, subclasses, monitor, tracker, queue, pending, ret, input, batch, answered, log>>

\* the events the compositor can send at time t
Events(stamped, t) ==
    IF stamped
    THEN {ResumedEvent} \cup { IdleEvent(ts) : ts \in { x \in Stamps : x <= t } }
    ELSE {ResumedEvent, IdleEvent(0)}

\* the compositor sends an idle or resumed event for the notification object
Arrive(ev) ==
    /\ \/ /\ IsWayland(monitor)
          /\ ev \in Events(FALSE, now)
          /\ Len(log) + Len(queue) < MaxKdeEvents
       \/ /\ tracker.notifier
          /\ tracker.connected
          /\ ev \in Events(TRUE, now)
          /\ Len(log) + Len(queue) < MaxEvents
    /\ queue' = Append(queue, ev)
    /\ UNCHANGED <<host, pc, subclasses, monitor, tracker, pending, now, ret, input, batch, answered, log>>

\* the compositor announces a new global
Announce(interface) ==
    /\ host.compositor
    /\ interface \notin host.globals
    /\ host' = [host EXCEPT !.globals = @ \cup {interface}]
    /\ pending' = IF tracker.phase # "none" THEN pending \cup {interface} ELSE pending
    /\ UNCHANGED <<pc, subclasses, monitor, tracker, queue, now, ret, input, batch, answered, log>>

\* tracker = ExtIdleMonitor(idle_threshold), until it waits in its roundtrip
ExtBegin(idle_threshold) ==
    /\ pc = "loaded"
    /\ monitor = NoMonitor
    /\ tracker.phase = "none"
    /\ LET r == ExtIdleMonitor_begin(idle_threshold, host, now)
       IN /\ tracker' = r.inst
          /\ ret' = IF r.ok THEN NoCall ELSE Raise("ExtIdleMonitor", r.exc)
    /\ pending' = {}
    /\ UNCHANGED <<host, pc, subclasses, monitor, queue, now, input, batch, answered, log>>

\* the roundtrip returns and the constructor runs on through
\* _setup_idle_notifier
ExtFinish ==
    /\ tracker.phase = "roundtrip"
    /\ LET r == ExtIdleMonitor_finish(tracker, pending)
       IN /\ tracker' = r.inst
          /\ ret' = IF r.ok THEN NoCall ELSE Raise("ExtIdleMonitor", r.exc)
    /\ pending' = {}
    /\ UNCHANGED <<host, pc, subclasses, monitor, queue, now, input, batch, answered, log>>

\* the constructor returns the tracker to its caller
ExtReturn ==
    /\ tracker.phase = "setup"
    /\ LET r == ExtIdleMonitor_return(tracker, queue, now)
       IN /\ tracker' = r.self
          /\ queue' = r.queue
          /\ batch' = SubSeq(queue, 1, Len(queue) - Len(r.queue))
          /\ log' = log \o SubSeq(queue, 1, Len(queue) - Len(r.queue))
    /\ ret' = ReturnObject("ExtIdleMonitor")
    /\ UNCHANGED <<host, pc, subclasses, monitor, pending, now, input, answered>>

\* tracker.get_idle_time(); on a display that was disconnected the library
\* either refuses the dispatch with an error or dispatches nothing
GetIdleTime(refused) ==
    /\ tracker.phase \in {"ready", "closed"}
    /\ dispatch_pending_returns(queue)
    /\ IF tracker.connected
       THEN /\ ~refused
            /\ LET a == get_idle_time(tracker, pending, queue, now)
               IN /\ tracker' = a.self
                  /\ ret' = a.out
            /\ queue' = <<>>
            /\ batch' = queue
            /\ log' = log \o queue
            /\ pending' = {}
       ELSE /\ ret' = IF refused THEN Raise("get_idle_time", "ValueError")
                      ELSE get_idle_time(tracker, {}, <<>>, now).out
            /\ batch' = <<>>
            /\ UNCHANGED <<tracker, queue, log, pending>>
    /\ UNCHANGED <<host, pc, subclasses, monitor, now, input, answered>>

\* tracker.cleanup(): the connection is closed and what it had queued is gone
Cleanup ==
    /\ tracker.phase = "ready"
    /\ tracker' = [cleanup(tracker) EXCEPT !.phase = "closed"]
    /\ queue' = IF tracker'.connected THEN queue ELSE <<>>
    /\ ret' = ReturnNone("cleanup")
    /\ UNCHANGED <<host, pc, subclasses, monitor, pending, now, input, batch, answered, log>>

\* monitor = WaylandKdeIdleMonitor(idle_threshold=...), constructed directly
NewWaylandKdeIdleMonitor(idle_threshold) ==
    /\ pc = "loaded"
    /\ monitor = NoMonitor
    /\ tracker.phase = "none"
    /\ LET r == Construct("WaylandKdeIdleMonitor", idle_threshold, host, queue, now)
       IN /\ monitor' = r.inst
          /\ ret' = IF r.ok THEN ReturnObject("WaylandKdeIdleMonitor")
                    ELSE Raise("WaylandKdeIdleMonitor", r.exc)
    /\ UNCHANGED <<host, pc, subclasses, tracker, queue, pending, now, input, batch, answered, log>>

\* monitor = IdleMonitor(idle_threshold=...), the base class itself
NewIdleMonitor(idle_threshold) ==
    /\ pc = "loaded"
    /\ monitor = NoMonitor
    /\ tracker.phase = "none"
    /\ monitor' = [cls |-> "IdleMonitor", idle_threshold |-> idle_threshold]
    /\ ret' = ReturnObject("IdleMonitor")
    /\ UNCHANGED <<host, pc, subclasses, tracker, queue, pending, now, input, batch, answered, log>>

\* a backend comes or goes while the process runs: the helper is installed
\* or removed, the bus service starts or stops
HostChange(h) ==
    /\ \/ h = [host EXCEPT !.xprintidle = ~host.xprintidle]
       \/ /\ host.sessionBus
          /\ h \in { [host EXCEPT !.busNames = b] :
                        b \in {BusNamesPlain, BusNamesIdle} \ {host.busNames} }
    /\ host' = h
    /\ UNCHANGED <<pc, subclasses, monitor, tracker, queue, pending, now, ret, input, batch, answered, log>>

(***************************************************************************)
(* Specifications                                                          *)
(***************************************************************************)
\* a process that imports the package and uses the registry
Init ==
    /\ host \in Hosts
    /\ pc = "start"
    /\ subclasses = <<>>
    /\ monitor = NoMonitor
    /\ tracker = NoTracker
    /\ queue = <<>>
    /\ pending = {}
    /\ now = 0
    /\ ret = NoCall
    /\ input = NoReading
    /\ batch = <<>>
    /\ answered = {}
    /\ log = <<>>

Next ==
    \/ Import
    \/ \E th \in Thresholds : GetMonitor(th)
    \/ \E rd \in Readings(monitor.cls) : GetDbusIdle(rd)
    \/ \E rd \in Readings(monitor.cls) : IsIdle(rd)
    \/ \E d \in TickSteps : Tick(d)
    \/ \E ev \in Events(FALSE, now) : Arrive(ev)

Spec == Init /\ [][Next]_vars

\* a process on a Wayland host that has imported the package and constructs
\* a Wayland tracker itself
WaylandGlobals == {"wl_seat", "ext_idle_notify_v1", "org_kde_kwin_idle"}

WaylandHosts ==
    { [pywayland |-> TRUE, compositor |-> TRUE, globals |-> g,
       dasbus |-> FALSE, sessionBus |-> FALSE, busNames |-> {},
       xprintidle |-> FALSE, libX11 |-> FALSE, xdisplay |-> FALSE,
       libXss |-> FALSE, win32api |-> FALSE] :
          g \in SUBSET WaylandGlobals }

InitTracker ==
    /\ host \in WaylandHosts
    /\ pc = "loaded"
    /\ subclasses = Registry
    /\ monitor = NoMonitor
    /\ tracker = NoTracker
    /\ queue = <<>>
    /\ pending = {}
    /\ now = 0
    /\ ret = NoCall
    /\ input = NoReading
    /\ batch = <<>>
    /\ answered = {}
    /\ log = <<>>

NextTracker ==
    \/ \E i \in WaylandGlobals : Announce(i)
    \/ \E th \in Thresholds : ExtBegin(th)
    \/ ExtFinish
    \/ ExtReturn
    \/ \E refused \in BOOLEAN : GetIdleTime(refused)
    \/ Cleanup
    \/ \E th \in Thresholds : NewWaylandKdeIdleMonitor(th)
    \/ \E rd \in Readings(monitor.cls) : GetDbusIdle(rd)
    \/ \E rd \in Readings(monitor.cls) : IsIdle(rd)
    \/ \E d \in TickSteps : Tick(d)
    \/ \E ev \in Events(TRUE, now) \cup Events(FALSE, now) : Arrive(ev)

SpecTracker == InitTracker /\ [][NextTracker]_vars

\* a process that has imported the package and queries through the registry
\* or through the base class while backends come and go
InitBase ==
    /\ host \in { h \in Hosts : h.pywayland /\ ~h.compositor }
    /\ pc = "loaded"
    /\ subclasses = Registry
    /\ monitor = NoMonitor
    /\ tracker = NoTracker
    /\ queue = <<>>
    /\ pending = {}
    /\ now = 0
    /\ ret = NoCall
    /\ input = NoReading
    /\ batch = <<>>
    /\ answered = {}
    /\ log = <<>>

NextBase ==
    \/ \E th \in Thresholds : GetMonitor(th)
    \/ \E th \in Thresholds : NewIdleMonitor(th)
    \/ \E rd \in Readings(monitor.cls) : GetDbusIdle(rd)
    \/ \E rd \in Readings(monitor.cls) : IsIdle(rd)
    \/ \E h \in { [host EXCEPT !.xprintidle = x, !.busNames = b] :
                    x \in BOOLEAN, b \in {host.busNames, BusNamesPlain, BusNamesIdle} } :
            HostChange(h)

SpecBase == InitBase /\ [][NextBase]_vars


(***************************************************************************)
(* Properties                                                              *)
(***************************************************************************)
\* a duration in milliseconds
Millis(d) == d.s * 1000 + d.f

\* what makes a backend usable on a host
Available(cls, h) ==
    CASE cls = "WaylandKdeIdleMonitor" ->
            h.compositor /\ {"wl_seat", "org_kde_kwin_idle"} \subseteq h.globals
      [] cls = "DBusIdleMonitor" ->
            /\ h.dasbus
            /\ h.sessionBus
            /\ \E n \in h.busNames : "IdleMonitor" \in { n[i] : i \in 1..Len(n) }
      [] cls = "XprintidleIdleMonitor" -> h.xprintidle
      [] cls = "X11IdleMonitor" -> h.libX11 /\ h.xdisplay /\ h.libXss
      [] cls = "WindowsIdleMonitor" -> h.win32api

\* the backends of the package, in priority order
Backends ==
    << "WaylandKdeIdleMonitor", "DBusIdleMonitor", "XprintidleIdleMonitor",
       "X11IdleMonitor", "WindowsIdleMonitor" >>

AnyAvailable == \E i \in 1..Len(Backends) : Available(Backends[i], host)

\* C1: for every threshold t >= 0 and every queried duration d, is_idle
\* returns true exactly when d > t; a duration equal to the threshold gives
\* false.
C1_IsIdleIffStrictlyGreater ==
    (ret.op = "is_idle" /\ ret.tag = "bool") =>
        /\ ret.bool <=> (Millis(ret.dur) > 1000 * monitor.idle_threshold)
        /\ (Millis(ret.dur) = 1000 * monitor.idle_threshold) => ~ret.bool

\* is_idle answered for a duration exactly equal to a positive threshold
C1_Witness ==
    /\ ret.op = "is_idle"
    /\ ret.tag = "bool"
    /\ monitor.idle_threshold > 0
    /\ Millis(ret.dur) = 1000 * monitor.idle_threshold
    /\ ~ret.bool

\* C2: get_monitor returns an instance of the lowest-index backend, in
\* registration order, whose construction succeeds; every backend before it
\* failed to construct, so the choice is a function of the order and of the
\* set of available backends.
C2_LowestIndexAvailable ==
    monitor # NoMonitor =>
        \E k \in 1..Len(Backends) :
            /\ subclasses[k] = Backends[k]
            /\ monitor.cls = Backends[k]
            /\ Available(Backends[k], host)
            /\ \A j \in 1..(k - 1) : ~Available(Backends[j], host)

\* get_monitor has just returned a backend that is neither the first nor the
\* only available one
C2_Witness ==
    /\ ret.op = "get_monitor"
    /\ ret.tag = "object"
    /\ monitor.cls = "XprintidleIdleMonitor"
    /\ host.compositor
    /\ host.dasbus
    /\ Available("X11IdleMonitor", host)
    /\ Available("WindowsIdleMonitor", host)

\* C3: if no registered backend can be constructed, get_monitor ends with
\* RuntimeError "Could not find a working monitor." and no instance is
\* returned.
C3_NoBackendAvailable ==
    (pc = "loaded" /\ ~AnyAvailable) =>
        /\ monitor = NoMonitor
        /\ (ret.op = "get_monitor") => (ret = Raise("get_monitor", "RuntimeError"))

\* get_monitor has raised on a host where every construction fails, some of
\* them after their first probe succeeded
C3_Witness ==
    /\ ret = Raise("get_monitor", "RuntimeError")
    /\ monitor = NoMonitor
    /\ ~AnyAvailable
    /\ host.compositor
    /\ host.libX11

\* C4: a construction failure of any backend, whatever its cause (a missing
\* library among them), never aborts selection: whenever some backend is
\* available the process gets a working instance, and the only error that
\* selection surfaces is the RuntimeError of get_monitor.
C4_FailureNeverAbortsSelection ==
    /\ (AnyAvailable /\ ret.op \in {"import", "get_monitor"}) => ret.tag = "object"
    /\ (ret.op = "get_monitor" /\ ret.tag = "raise") =>
            (ret.exc = "RuntimeError" /\ ~AnyAvailable)


(***************************************************************************)
(* Properties of the ext-idle-notify tracker, under SpecTracker            *)
(***************************************************************************)
Last(seq) == seq[Len(seq)]

\* a step that is a call of get_idle_time on the constructed tracker
QueryStep ==
    /\ tracker.phase = "ready"
    /\ tracker'.phase = "ready"
    /\ now' = now
    /\ host' = host
    /\ queue' = <<>>

\* C5, first half: once exactly the events idle(T1), resumed(), idle(T2) have
\* been processed, in that arrival order and however they were split over
\* the queries, the tracker is Idle with idle_since = T2.
C5_IdleResumedIdle ==
    \A t1 \in Stamps, t2 \in Stamps :
        log = <<IdleEvent(t1), ResumedEvent, IdleEvent(t2)>> =>
            tracker.idle_since = <<t2>>

\* C5, second half: with no event queued nothing changes idle_since or
\* last_activity, a query included.
C5_EmptyDrainChangesNothing ==
    (tracker.phase = "ready" /\ tracker'.phase = "ready" /\ queue = <<>>) =>
        /\ tracker'.idle_since = tracker.idle_since
        /\ tracker'.last_activity = tracker.last_activity

\* C5: the event sequence [idle(T1), resumed(), idle(T2)] processed in arrival
\* order leaves the tracker Idle with idle_since = T2 for every interleaving
\* of queries, and a query with nothing queued changes neither idle_since nor
\* last_activity.
C5_SequenceAndIdempotentDrain ==
    [](C5_IdleResumedIdle) /\ [][C5_EmptyDrainChangesNothing]_vars

\* the three events processed with distinct timestamps, the last two by one
\* query
C5_Witness ==
    /\ log = <<IdleEvent(0), ResumedEvent, IdleEvent(1000)>>
    /\ batch = <<ResumedEvent, IdleEvent(1000)>>
    /\ tracker.idle_since = <<1000>>

\* C6: at every observation point after construction idle_since is set if
\* and only if the most recent event processed was idle; it is unset at
\* construction and after any sequence of events ending in resumed.
C6_IdleSinceIffLastEventIdle ==
    tracker.phase \in {"roundtrip", "setup", "ready", "closed"} =>
        (tracker.idle_since # <<>> <=> (log # <<>> /\ Last(log).name = "idle"))

\* idle_since unset again after an idle event followed by a resumed event
C6_Witness ==
    /\ tracker.phase = "ready"
    /\ Len(log) = 2
    /\ log[1].name = "idle"
    /\ log[2].name = "resumed"
    /\ tracker.idle_since = <<>>

\* C7: resumed events dispatched while the tracker is Active leave it Active,
\* idle_since unset, and change nothing but last_activity, which becomes the
\* time of the dispatch.
C7_ResumedWhileActive ==
    [][(/\ QueryStep
        /\ tracker.idle_since = <<>>
        /\ queue # <<>>
        /\ \A i \in 1..Len(queue) : queue[i].name = "resumed")
       => tracker' = [tracker EXCEPT !.last_activity = now]]_vars

\* a resumed event was dispatched to a tracker that had seen no idle event,
\* later than its construction
C7_Witness ==
    /\ tracker.phase = "ready"
    /\ log = <<ResumedEvent>>
    /\ batch = <<ResumedEvent>>
    /\ tracker.idle_since = <<>>
    /\ tracker.last_activity = now
    /\ now > 0

\* C8: get_idle_time dispatches every queued event, in arrival order, and
\* only then computes its result: (now_ms - idle_since_ms) / 1000 if the
\* last event leaves it Idle, now - last_activity if Active; the result
\* never reflects a state that a queued event has superseded.
C8_DispatchThenCompute ==
    [][QueryStep =>
        LET since == IF queue = <<>> THEN tracker.idle_since
                     ELSE IF Last(queue).name = "idle"
                          THEN <<Last(queue).timestamp>> ELSE <<>>
            active == IF \E i \in 1..Len(queue) : queue[i].name = "resumed"
                      THEN now ELSE tracker.last_activity
        IN /\ log' = log \o queue
           /\ tracker'.idle_since = since
           /\ tracker'.last_activity = active
           /\ ret'.op = "get_idle_time"
           /\ ret'.tag = "float"
           /\ Millis(ret'.dur) = IF since # <<>> THEN now - since[1] ELSE now - active
      ]_vars

\* a query that found a resumed and then an idle event queued, on a tracker
\* that was Idle since an earlier timestamp
C8_Witness ==
    /\ ret.op = "get_idle_time"
    /\ batch = <<ResumedEvent, IdleEvent(1000)>>
    /\ log = <<IdleEvent(0), ResumedEvent, IdleEvent(1000)>>
    /\ now > 1000
    /\ Millis(ret.dur) = now - 1000


(***************************************************************************)
(* Properties of the helper-process and bus-service backends, under Spec   *)
(***************************************************************************)
\* a run of the helper that gives no idle time: not spawned, a non-zero
\* exit status, or output that is not one number
HelperFailed(run) ==
    \/ ~run.spawned
    \/ run.returncode # 0
    \/ ~int(strip(run.stdout)).ok

\* C9: when a single query of the helper-process backend fails (spawn
\* failure, non-zero exit, malformed output), that query returns 0.0 and does
\* not raise past the caller.
C9_HelperFailureGivesZero ==
    (/\ monitor.cls = "XprintidleIdleMonitor"
     /\ ret.op = "get_dbus_idle"
     /\ HelperFailed(input.run))
    => ret = Return("get_dbus_idle", Zero)

\* C10: the bus-service backend returns GetIdletime() / 1000 seconds and
\* is_idle compares that with the threshold: with threshold 120, 125000 ms
\* gives 125.0 and true, 60000 ms gives 60.0 and false.
C10_BusServiceEndToEnd ==
    (monitor.cls = "DBusIdleMonitor" /\ ret.op \in {"get_dbus_idle", "is_idle"}) =>
        /\ ret.tag = IF ret.op = "is_idle" THEN "bool" ELSE "float"
        /\ Millis(ret.dur) = input.ms
        /\ ret.dur.f \in 0..999
        /\ (ret.op = "is_idle") =>
                (ret.bool <=> (input.ms > 1000 * monitor.idle_threshold))
        /\ (input.ms = 125000 /\ monitor.idle_threshold = 120) =>
                (ret.dur = [s |-> 125, f |-> 0] /\ (ret.op = "is_idle" => ret.bool))
        /\ (input.ms = 60000 /\ monitor.idle_threshold = 120) =>
                (ret.dur = [s |-> 60, f |-> 0] /\ ~ret.bool)

\* is_idle on the bus-service backend with threshold 120 and 125000 ms
C10_Witness ==
    /\ monitor.cls = "DBusIdleMonitor"
    /\ monitor.idle_threshold = 120
    /\ ret.op = "is_idle"
    /\ input.ms = 125000
    /\ ret.dur = [s |-> 125, f |-> 0]
    /\ ret.bool

(***************************************************************************)
(* Properties of Wayland tracker construction, under SpecTracker           *)
(***************************************************************************)
ExtGlobals == {"wl_seat", "ext_idle_notify_v1"}

KdeGlobals == {"wl_seat", "org_kde_kwin_idle"}

\* C11: construction of a Wayland tracker ends in an error and leaves no
\* tracker whenever the seat or the idle-notification manager has not been
\* announced by the end of the constructor's synchronization, and no idle
\* notification is requested then: a notification exists only on a tracker
\* that bound both globals, a global is bound only if it was announced, and
\* a constructor call made while a global is missing raised and left
\* nothing behind.
C11_MissingGlobalFailsConstruction ==
    /\ tracker.notifier => (tracker.seat /\ tracker.idle_manager)
    /\ tracker.phase # "none" => tracker.seat
    /\ tracker.phase \in {"setup", "ready", "closed"} =>
            (tracker.idle_manager /\ tracker.notifier)
    /\ tracker.seat => "wl_seat" \in host.globals
    /\ tracker.idle_manager => "ext_idle_notify_v1" \in host.globals
    /\ (ret.op = "ExtIdleMonitor" /\ ~(ExtGlobals \subseteq host.globals)) =>
            (ret.tag = "raise" /\ tracker = NoTracker)
    /\ (ret.op = "WaylandKdeIdleMonitor" /\ ~(KdeGlobals \subseteq host.globals)) =>
            (ret.tag = "raise" /\ monitor = NoMonitor)
    /\ IsWayland(monitor) => KdeGlobals \subseteq host.globals

\* the ext-idle constructor raised after its second roundtrip: the seat was
\* announced, the manager was not
C11_Witness ==
    /\ ret = Raise("ExtIdleMonitor", "RuntimeError")
    /\ "wl_seat" \in host.globals
    /\ "ext_idle_notify_v1" \notin host.globals
    /\ tracker = NoTracker

\* C12: cleanup disconnects the compositor connection, and once teardown has
\* begun no idle or resumed event is delivered to the tracker: idle_since
\* and last_activity never change again and nothing more is dispatched, a
\* query issued afterwards included.
C12_NoDeliveryAfterTeardown ==
    /\ [](tracker.phase = "closed" => ~tracker.connected)
    /\ [][tracker.phase = "closed" =>
            /\ tracker'.idle_since = tracker.idle_since
            /\ tracker'.last_activity = tracker.last_activity
            /\ log' = log
            /\ queue' = <<>>]_vars

\* a query answered after cleanup, later than the cleanup, by a tracker that
\* had processed an idle event before
C12_Witness ==
    /\ tracker.phase = "closed"
    /\ ~tracker.connected
    /\ ret.op = "get_idle_time"
    /\ ret.tag = "float"
    /\ tracker.idle_since = <<0>>
    /\ Millis(ret.dur) = 1000

(***************************************************************************)
(* Properties of queries through a monitor object, under SpecBase          *)
(***************************************************************************)
\* C13: one mechanism per process lifetime: once a monitor object exists,
\* every idle query made through it is answered by the same backend; no
\* query probes the registry again or switches backend when availability
\* changes between two queries.
C13_OneBackendPerMonitor == Cardinality(answered) <= 1

(***************************************************************************)
(* Properties of ext-idle tracker construction, under SpecTracker          *)
(***************************************************************************)
\* C14: when the compositor has announced both a seat and the
\* idle-notification manager by the time the constructor's registry
\* enumeration ends, each global announced once, the tracker binds both and
\* construction goes on to request the idle notification and succeeds.
C14_BothAnnouncedConstructs ==
    [][(/\ tracker.phase = "roundtrip"
        /\ tracker'.phase # "roundtrip"
        /\ ExtGlobals \subseteq host.globals)
       => (/\ tracker'.phase = "setup"
           /\ tracker'.seat
           /\ tracker'.idle_manager
           /\ tracker'.notifier)]_vars

(***************************************************************************)
(* Properties of the registry, under Spec                                  *)
(***************************************************************************)
\* the backend implementations the package defines: every class that no
\* other class derives from
Implementations ==
    { ClassDefs[i].name : i \in { j \in 1..Len(ClassDefs) :
        \A k \in 1..Len(ClassDefs) : ClassDefs[k].base # ClassDefs[j].name } }

\* C15: every known backend implementation, the Wayland event-driven
\* tracker included, is registered exactly once in the process-wide list, in
\* definition order, so that get_monitor selects it when it is the first
\* available backend.
C15_EveryBackendRegisteredOnce ==
    pc = "loaded" =>
        /\ \A c \in Implementations :
              Cardinality({ i \in 1..Len(subclasses) : subclasses[i] = c }) = 1
        /\ \A i \in 1..Len(subclasses), j \in 1..Len(subclasses) :
              i < j =>
                 \E a \in 1..Len(ClassDefs), b \in 1..Len(ClassDefs) :
                      /\ a < b
                      /\ ClassDefs[a].name = subclasses[i]
                      /\ ClassDefs[b].name = subclasses[j]

\* C16: construction of a Wayland tracker performs, as its last step after
\* the notification is requested and the handlers are registered, one
\* non-blocking drain of the events already queued, so that an idle event
\* queued before the constructor returns is reflected in the tracker's state
\* when it returns.
C16_ConstructorDrainsQueue ==
    [][(tracker.phase = "setup" /\ tracker'.phase = "ready") =>
          /\ queue' = <<>>
          /\ log' = log \o queue
          /\ (queue # <<>> /\ Last(queue).name = "idle") =>
                 tracker'.idle_since = <<Last(queue).timestamp>>]_vars

(***************************************************************************)
(* Properties of Wayland tracker queries, under SpecTracker                *)
(***************************************************************************)
\* C17: a query of a Wayland tracker always returns without waiting for a
\* future event: on a connected tracker the call can complete whatever the
\* queue holds, and with an empty queue and no event ever arrived
\* get_idle_time still returns a duration.
C17_QueryNeverWaits ==
    /\ (tracker.phase = "ready" /\ tracker.connected) => ENABLED GetIdleTime(FALSE)
    /\ IsWayland(monitor) => ENABLED GetDbusIdle(NoReading)
    /\ (ret.op = "get_idle_time" /\ tracker.connected) => ret.tag = "float"
    /\ (ret.op = "get_dbus_idle" /\ IsWayland(monitor)) => ret.tag = "float"

\* get_idle_time has returned a duration, later than the construction, on a
\* tracker that never received an event
C17_Witness ==
    /\ ret.op = "get_idle_time"
    /\ ret.tag = "float"
    /\ tracker.connected
    /\ log = <<>>
    /\ batch = <<>>
    /\ queue = <<>>
    /\ Millis(ret.dur) = 1000

(***************************************************************************)
(* Properties of is_idle on any monitor object, under SpecBase             *)
(***************************************************************************)
\* C18: a failing query never reaches the caller of is_idle as an exception:
\* is_idle on any monitor object, a base IdleMonitor whose fallback query
\* finds no backend that constructs and answers included, returns a boolean
\* and never raises.
C18_IsIdleNeverRaises == ret.op = "is_idle" => ret.tag = "bool"

C20_KdeIdleMeansIsIdle ==
    (IsWayland(monitor) /\ ret.op = "is_idle" /\ monitor.idle_active) =>
        (ret.tag = "bool" /\ ret.bool)

====
